---- MODULE Spec2Model ----
(***************************************************************************)
(* Model of run_analysis.py, the orchestration script of Merge-Discovery.  *)
(*                                                                         *)
(* The program is sequential.  Its state is the position of main() and of  *)
(* the function it is in, the locals of those functions, and the part of   *)
(* the file system and of the child processes the script reads or writes.  *)
(* What the external collaborators answer (health check, mapping request,  *)
(* analyzer and merge tool exit codes, contents of the files they write)   *)
(* is drawn nondeterministically where the script reads it.                *)
(*                                                                         *)
(* Environment assumption: the interpreters the script spawns (python,     *)
(* node, taskkill) are installed, so subprocess.Popen / subprocess.run     *)
(* start their child; console output never fails.                          *)
(***************************************************************************)
EXTENDS Integers, Sequences, FiniteSets, TLC

\* Number of distinct capture-record stems the source directory may hold.
MaxStems == 2

\* max_wait, the number of health polls (run_noizz2025).
max_wait == 30

Stems == 1..MaxStems

\* Non-empty script texts a capture record may carry in `content`, as
\* sequences of characters: "LF" is the line feed, "SUR" a lone surrogate
\* (JSON "\ud800"), which json.load accepts and UTF-8 cannot encode.
Contents == { <<"c">>, <<"c", "LF">>, <<"SUR">> }

\* Text of a .js file left in the extraction directory by an earlier run.
StaleText == <<"o">>

\* What a *.json file of the source directory holds:
\*   "unparsable" - not JSON;          "nonobject" - JSON, but not an object;
\*   "absent"     - an object without `content` (or content null);
\*   "nonstring"  - content is a truthy value that is not a string;
\*   "string"     - content is the string in field content (<< >> is "").
CaptureRecords ==
    [kind : {"unparsable", "nonobject", "absent", "nonstring"}, content : {<< >>}]
    \cup [kind : {"string"}, content : Contents \cup {<< >>}]

\* The contents a directory can have: file stem -> what the file holds.
Dir(values) == UNION { [S -> values] : S \in SUBSET Stems }

\* What an analyzer invoker can find at its target directory.
DirStates == {"missing", "empty", "hasjs"}

VARIABLES
    analyze_only,      \* args.analyze_only
    skip_capture,      \* args.skip_capture
    js_dir,            \* args.js_dir was given (and is not empty)
    win32,             \* sys.platform == 'win32'
    pc,                \* position of the program
    json_dir_exists,   \* JS_FILES_JSON_DIR.exists() as main saw it
    records,           \* contents of JS_FILES_JSON_DIR/<stem>.json
    extracted_exists,  \* EXTRACTED_JS_DIR.exists()
    extracted_js,      \* contents of EXTRACTED_JS_DIR/<stem>.js
    json_files,        \* json_files still to be visited by the for loop
    extracted_count,
    failed_count,
    previous_run,      \* history: what the previous extraction run left
    server_process,    \* "none", "running" (Popen returned)
    term_requests,     \* termination requests sent to server_process
    i,                 \* health polls completed without a 200
    server_ready,
    health_requests,   \* GET /health issued
    map_requests,      \* POST /map issued
    map_outcome,       \* how the try block of run_noizz2025 ended
    capture_result,    \* what run_noizz2025 gave main: none/true/false/raised
    analyzer_spawns,   \* node main.js subprocesses started
    analyzer_rc,       \* result.returncode of the analyzer (-1: not run)
    analyzer_target,   \* directory handed to the analyzer
    target_state,      \* what the analyzer invoker found at its directory
    analysis_result,   \* what the analyzer invoker returned: none/true/false
    merge_calls,       \* calls of convert_and_merge_outputs
    merge_rc,          \* result.returncode of the merge tool (-1: not run)
    merged_file,       \* state of api_calls_merged.json when it is read
    merge_result,      \* none / returned / raised
    exit_status,       \* process exit status (-1: still running)
    stages,            \* stages entered, in order
    log                \* kinds of console messages printed

vars == << analyze_only, skip_capture, js_dir, win32, pc, json_dir_exists,
           records, extracted_exists, extracted_js, json_files,
           extracted_count, failed_count, previous_run, server_process,
           term_requests, i,
           server_ready, health_requests, map_requests, map_outcome,
           capture_result, analyzer_spawns, analyzer_rc, analyzer_target,
           target_state, analysis_result, merge_calls, merge_rc, merged_file,
           merge_result, exit_status, stages, log >>

fsVars == << json_dir_exists, records, extracted_exists, extracted_js >>

extractVars == << json_files, extracted_count, failed_count, previous_run >>

captureVars == << server_process, term_requests, i, server_ready,
                  health_requests, map_requests, map_outcome, capture_result >>

analysisVars == << analyzer_spawns, analyzer_rc, analyzer_target,
                   target_state, analysis_result >>

mergeVars == << merge_calls, merge_rc, merged_file, merge_result >>

argVars == << analyze_only, skip_capture, js_dir, win32 >>

\* The run mode main() dispatches to (lines 286, 291, 317).
Mode ==
    IF analyze_only THEN "analyze_only"
    ELSE IF skip_capture THEN "skip_capture"
    ELSE "full"

\* The stems that have a .js file in EXTRACTED_JS_DIR: glob("*.js").
JsFiles == DOMAIN extracted_js

\* An empty directory.
NoFiles == [s \in {} |-> << >>]

\* The arguments, the file system and the locals before any code has run.
Start ==
    /\ analyze_only \in BOOLEAN
    /\ skip_capture \in BOOLEAN
    /\ js_dir \in BOOLEAN
    /\ win32 \in BOOLEAN
    /\ json_dir_exists = "unchecked"
    /\ records = NoFiles
    /\ extracted_exists \in BOOLEAN
    /\ extracted_js \in Dir({StaleText})
    /\ (~extracted_exists => extracted_js = NoFiles)
    /\ json_files = {}
    /\ extracted_count = 0
    /\ failed_count = 0
    /\ previous_run = {}
    /\ server_process = "none"
    /\ term_requests = 0
    /\ i = 0
    /\ server_ready = FALSE
    /\ health_requests = 0
    /\ map_requests = 0
    /\ map_outcome = "none"
    /\ capture_result = "none"
    /\ analyzer_spawns = 0
    /\ analyzer_rc = -1
    /\ analyzer_target = "none"
    /\ target_state = "unchecked"
    /\ analysis_result = "none"
    /\ merge_calls = 0
    /\ merge_rc = -1
    /\ merged_file = "unread"
    /\ merge_result = "none"
    /\ exit_status = -1
    /\ stages = << >>
    /\ log = {}

\* The process starts main().
Init ==
    /\ Start
    /\ pc = "main"

\* Exit codes a subprocess can end with (1 stands for every nonzero code).
ExitCodes == {0, 1}

\* sys.exit(code), or main() returning (code 0), or an uncaught exception
\* ending the interpreter (code 1).
Exit(code) ==
    /\ pc' = "exited"
    /\ exit_status' = code

\* What EXTRACTED_JS_DIR looks like to an analyzer invoker:
\* exists() and glob("*.js").
ExtractedDirState ==
    IF ~extracted_exists THEN "missing"
    ELSE IF JsFiles = {} THEN "empty"
    ELSE "hasjs"

----------------------------------------------------------------------------
(* Analyzer invoker *)

\* run_static_analysis_only returning True whenever the analyzer was run,
\* whatever its exit code.
run_static_analysis_only_ignores_rc(st, rc) ==
    /\ analyzer_target' = IF js_dir THEN "js_dir" ELSE "extracted_js"
    /\ target_state' = st
    /\ IF st = "hasjs"
       THEN /\ analyzer_spawns' = analyzer_spawns + 1
            /\ analyzer_rc' = rc
            /\ analysis_result' = "true"
       ELSE /\ UNCHANGED << analyzer_spawns, analyzer_rc >>
            /\ analysis_result' = "false"

\* run_static_analysis_only(js_directory, output_file): st is what the target
\* directory looks like, rc the analyzer's exit code if it is run.
run_static_analysis_only(st, rc) ==
    /\ analyzer_target' = IF js_dir THEN "js_dir" ELSE "extracted_js"
    /\ target_state' = st
    /\ IF st = "hasjs"
       THEN /\ analyzer_spawns' = analyzer_spawns + 1
            /\ analyzer_rc' = rc
            /\ analysis_result' = IF rc = 0 THEN "true" ELSE "false"
       ELSE /\ UNCHANGED << analyzer_spawns, analyzer_rc >>
            /\ analysis_result' = "false"

\* run_static_analysis without the test of lines 179-182: the analyzer is
\* run on any directory that exists.
run_static_analysis_no_glob_check(rc) ==
    /\ analyzer_target' = "extracted_js"
    /\ target_state' = ExtractedDirState
    /\ IF ExtractedDirState # "missing"
       THEN /\ analyzer_spawns' = analyzer_spawns + 1
            /\ analyzer_rc' = rc
            /\ analysis_result' = IF rc = 0 THEN "true" ELSE "false"
       ELSE /\ UNCHANGED << analyzer_spawns, analyzer_rc >>
            /\ analysis_result' = "false"

\* run_static_analysis(output_file), always on EXTRACTED_JS_DIR.
run_static_analysis(rc) ==
    /\ analyzer_target' = "extracted_js"
    /\ target_state' = ExtractedDirState
    /\ IF ExtractedDirState = "hasjs"
       THEN /\ analyzer_spawns' = analyzer_spawns + 1
            /\ analyzer_rc' = rc
            /\ analysis_result' = IF rc = 0 THEN "true" ELSE "false"
       ELSE /\ UNCHANGED << analyzer_spawns, analyzer_rc >>
            /\ analysis_result' = "false"

\* main(), mode 1: if args.analyze_only: run the analyzer invoker and exit
\* with its result.
AnalyzeOnly ==
    /\ pc = "main"
    /\ analyze_only
    /\ \E st \in DirStates, rc \in ExitCodes :
         /\ (~js_dir => st = ExtractedDirState)
         /\ run_static_analysis_only(st, rc)
    /\ stages' = Append(stages, "analysis")
    /\ Exit(IF analysis_result' = "true" THEN 0 ELSE 1)
    /\ log' = log
    /\ UNCHANGED << argVars, fsVars, extractVars, captureVars, mergeVars >>

\* Analysis with an analyzer failure made fatal: sys.exit(1) before the merge.
AnalysisAbortsOnFailure ==
    /\ pc = "analysis"
    /\ \E rc \in ExitCodes : run_static_analysis(rc)
    /\ stages' = Append(stages, "analysis")
    /\ IF analysis_result' = "true"
       THEN /\ pc' = "merge"
            /\ UNCHANGED << exit_status, log >>
       ELSE /\ Exit(1)
            /\ log' = log \cup {"ERROR: static analysis"}
    /\ UNCHANGED << argVars, fsVars, extractVars, captureVars, mergeVars >>

\* main(), step 3 of modes 2 and 3: run_static_analysis(args.output); its
\* result is dropped and the merge step follows.
Analysis ==
    /\ pc = "analysis"
    /\ \E rc \in ExitCodes : run_static_analysis(rc)
    /\ stages' = Append(stages, "analysis")
    /\ pc' = "merge"
    /\ log' = IF analysis_result' = "true" THEN log
              ELSE log \cup {"ERROR: static analysis"}
    /\ UNCHANGED << argVars, fsVars, extractVars, captureVars, mergeVars,
                    exit_status >>

----------------------------------------------------------------------------
(* Merge invoker *)

\* The states of outputs/api_calls_merged.json after the merge tool ran:
\* no such file; a JSON object whose summary (if any) is an object;
\* a file that is not JSON; JSON that is not an object.
MergedFileStates == {"absent", "object", "unparsable", "nonobject"}

\* json.load() and the .get() calls on the merged file succeed.
MergedFileReadable(file) == file \in {"absent", "object"}

\* convert_and_merge_outputs(): rc is the merge tool's exit code, file the
\* state of the merged-output file afterwards.
convert_and_merge_outputs(rc, file) ==
    /\ merge_calls' = merge_calls + 1
    /\ merge_rc' = rc
    /\ merged_file' = file
    /\ merge_result' = IF MergedFileReadable(file) THEN "returned" ELSE "raised"

\* The console messages of convert_and_merge_outputs().
MergeMessages(rc, file) ==
    (IF rc # 0 THEN {"Warning: Merge step had issues"} ELSE {})
    \cup (IF file = "absent" THEN {"Warning: Merged output file not found"}
          ELSE IF MergedFileReadable(file) THEN {"Merged output created"}
          ELSE {"Traceback"})

\* main(), step 4 of modes 2 and 3: convert_and_merge_outputs(), then the
\* closing banner and the end of the process.
Merge ==
    /\ pc = "merge"
    /\ \E rc \in ExitCodes, file \in MergedFileStates :
         /\ convert_and_merge_outputs(rc, file)
         /\ log' = log \cup MergeMessages(rc, file)
                       \cup (IF MergedFileReadable(file)
                             THEN {"Pipeline complete!"} ELSE {})
    /\ stages' = Append(stages, "merge")
    /\ Exit(IF merge_result' = "returned" THEN 0 ELSE 1)
    /\ UNCHANGED << argVars, fsVars, extractVars, captureVars, analysisVars >>

----------------------------------------------------------------------------
(* Extractor *)

RECURSIVE TranslateNewlines(_)
\* A text with every line feed written as carriage return + line feed.
TranslateNewlines(text) ==
    IF text = << >> THEN << >>
    ELSE IF Head(text) = "LF"
         THEN << "CR", "LF" >> \o TranslateNewlines(Tail(text))
         ELSE << Head(text) >> \o TranslateNewlines(Tail(text))

\* What open(js_file_path, 'w', encoding='utf-8').write(content) leaves in
\* the file: text mode writes '\n' as os.linesep.
WrittenText(content) ==
    IF win32 THEN TranslateNewlines(content) ELSE content

\* f.write(content) on a file opened with encoding='utf-8' succeeds: the
\* text holds no lone surrogate (else UnicodeEncodeError is raised).
Encodable(text) == \A k \in DOMAIN text : text[k] # "SUR"

\* The test of line 58 on a parsed record: content is a non-empty string.
\* Reaching it needs json.load() and data.get() not to raise.
HasUsableContent(rec) ==
    /\ rec.kind = "string"
    /\ Len(rec.content) > 0

\* A directory with file f (over)written to hold text.
WriteFile(dir, f, text) ==
    [s \in DOMAIN dir \cup {f} |-> IF s = f THEN text ELSE dir[s]]

\* ExtractBeginOn without the unlink loop of lines 40-42: the .js files of
\* the destination directory are left in place.
ExtractBeginOnNoClear(recs) ==
    /\ pc = "extract"
    /\ extracted_exists' = TRUE
    /\ extracted_js' = extracted_js
    /\ records' = recs
    /\ json_files' = DOMAIN recs
    /\ extracted_count' = 0
    /\ failed_count' = 0
    /\ stages' = Append(stages, "extraction")
    /\ pc' = "extract_loop"
    /\ UNCHANGED << argVars, json_dir_exists, previous_run, captureVars,
                    analysisVars, mergeVars, exit_status, log >>

\* extract_js_from_json_files(), up to the for loop, with the source
\* directory holding recs: create the destination directory, unlink its
\* *.js files, list the *.json files of the source.
ExtractBeginOn(recs) ==
    /\ pc = "extract"
    /\ extracted_exists' = TRUE
    /\ extracted_js' = NoFiles
    /\ records' = recs
    /\ json_files' = DOMAIN recs
    /\ extracted_count' = 0
    /\ failed_count' = 0
    /\ stages' = Append(stages, "extraction")
    /\ pc' = "extract_loop"
    /\ UNCHANGED << argVars, json_dir_exists, previous_run, captureVars,
                    analysisVars, mergeVars, exit_status, log >>

\* main() calls extract_js_from_json_files() (lines 298, 322) on whatever
\* the source directory holds.
ExtractBegin ==
    /\ pc = "extract"
    /\ \E recs \in Dir(CaptureRecords) : ExtractBeginOn(recs)

\* ExtractOne with the test of line 58 cut down to isinstance(content, str):
\* an empty content is written out as an empty file and counted.
ExtractOneAnyString(f) ==
    /\ pc = "extract_loop"
    /\ f \in json_files
    /\ json_files' = json_files \ {f}
    /\ IF records[f].kind = "string"
       THEN IF Encodable(records[f].content)
            THEN /\ extracted_js' = WriteFile(extracted_js, f,
                                        WrittenText(records[f].content))
                 /\ extracted_count' = extracted_count + 1
                 /\ failed_count' = failed_count
            ELSE /\ extracted_js' = WriteFile(extracted_js, f, << >>)
                 /\ failed_count' = failed_count + 1
                 /\ extracted_count' = extracted_count
       ELSE /\ failed_count' = failed_count + 1
            /\ UNCHANGED << extracted_js, extracted_count >>
    /\ UNCHANGED << argVars, pc, json_dir_exists, records, extracted_exists,
                    previous_run, captureVars, analysisVars, mergeVars,
                    exit_status, stages, log >>

\* ExtractOne without the try/except of lines 51 and 74: a record that
\* cannot be parsed, or is not an object, ends the process with a traceback.
ExtractOneAbortsOnError(f) ==
    /\ f \in json_files
    /\ pc = "extract_loop"
    /\ json_files' = json_files \ {f}
    /\ IF records[f].kind \in {"unparsable", "nonobject"}
       THEN /\ Exit(1)
            /\ UNCHANGED << extracted_js, extracted_count, failed_count >>
       ELSE /\ UNCHANGED << pc, exit_status >>
            /\ IF HasUsableContent(records[f])
                  /\ Encodable(records[f].content)
               THEN /\ extracted_js' = WriteFile(extracted_js, f,
                                           WrittenText(records[f].content))
                    /\ extracted_count' = extracted_count + 1
                    /\ failed_count' = failed_count
               ELSE /\ failed_count' = failed_count + 1
                    /\ UNCHANGED << extracted_js, extracted_count >>
    /\ UNCHANGED << argVars, json_dir_exists, records, extracted_exists,
                    previous_run, captureVars, analysisVars, mergeVars,
                    stages, log >>

\* One iteration of the for loop over json_files, for file <f>.json: the
\* try block (lines 51-72) and its except clause (lines 74-76).
ExtractOne(f) ==
    /\ pc = "extract_loop"
    /\ f \in json_files
    /\ json_files' = json_files \ {f}
    /\ IF HasUsableContent(records[f])
       THEN IF Encodable(records[f].content)
            THEN /\ extracted_js' = WriteFile(extracted_js, f,
                                        WrittenText(records[f].content))
                 /\ extracted_count' = extracted_count + 1
                 /\ failed_count' = failed_count
            ELSE \* open(.., 'w') has created the file, write() raises and
                 \* the except clause counts the record as failed
                 /\ extracted_js' = WriteFile(extracted_js, f, << >>)
                 /\ failed_count' = failed_count + 1
                 /\ extracted_count' = extracted_count
       ELSE /\ failed_count' = failed_count + 1
            /\ UNCHANGED << extracted_js, extracted_count >>
    /\ UNCHANGED << argVars, pc, json_dir_exists, records, extracted_exists,
                    previous_run, captureVars, analysisVars, mergeVars,
                    exit_status, stages, log >>

\* ExtractEnd with the test extracted >= 0: a zero count goes on to analysis.
ExtractEndNoZeroCheck ==
    /\ pc = "extract_loop"
    /\ json_files = {}
    /\ pc' = "analysis"
    /\ UNCHANGED << exit_status, log >>
    /\ UNCHANGED << argVars, fsVars, extractVars, captureVars, analysisVars,
                    mergeVars, stages >>

\* The loop is over: extract_js_from_json_files() returns extracted_count
\* and main() tests it (lines 299/310 in mode 2, line 324 in mode 3).
ExtractEnd ==
    /\ pc = "extract_loop"
    /\ json_files = {}
    /\ IF extracted_count > 0
       THEN /\ pc' = "analysis"
            /\ UNCHANGED << exit_status, log >>
       ELSE /\ Exit(1)
            /\ log' = log \cup {"No JS files were extracted"}
    /\ UNCHANGED << argVars, fsVars, extractVars, captureVars, analysisVars,
                    mergeVars, stages >>

\* SkipCaptureCheck without the sys.exit(1) for a missing source directory.
SkipCaptureCheckNoExit ==
    /\ pc = "main"
    /\ ~analyze_only
    /\ skip_capture
    /\ \E exists \in BOOLEAN :
         /\ json_dir_exists' = IF exists THEN "exists" ELSE "missing"
         /\ log' = IF exists THEN log
                   ELSE log \cup {"ERROR: JS JSON files directory not found"}
    /\ pc' = "extract"
    /\ UNCHANGED << argVars, records, extracted_exists, extracted_js,
                    extractVars, captureVars, analysisVars, mergeVars,
                    exit_status, stages >>

\* main(), mode 2: if args.skip_capture: the source directory must exist.
SkipCaptureCheck ==
    /\ pc = "main"
    /\ ~analyze_only
    /\ skip_capture
    /\ \E exists \in BOOLEAN :
         IF exists
         THEN /\ json_dir_exists' = "exists"
              /\ pc' = "extract"
              /\ UNCHANGED << exit_status, log >>
         ELSE /\ json_dir_exists' = "missing"
              /\ Exit(1)
              /\ log' = log \cup {"ERROR: JS JSON files directory not found"}
    /\ UNCHANGED << argVars, records, extracted_exists, extracted_js,
                    extractVars, captureVars, analysisVars, mergeVars, stages >>

----------------------------------------------------------------------------
(* Capture trigger *)

\* What one GET /health can bring: status 200, another status, an exception
\* (connection refused, timeout), which the bare except swallows.
HealthAnswers == {"200", "other", "exception"}

\* How the try block of run_noizz2025 can end:
\*   "config_error"  - opening or parsing the config file raised;
\*   "request_error" - httpx.post raised;
\*   "non200"        - the mapping answered with a status other than 200;
\*   "200_badbody"   - it answered 200 and response.json() raised;
\*   "200"           - it answered 200 with a JSON object.
MapOutcomes == {"config_error", "request_error", "non200", "200_badbody", "200"}

\* The value the try/except blocks hand to return (lines 147, 151, 157).
TryResult(outcome) == IF outcome = "200" THEN "true" ELSE "false"

\* LaunchCapture reached although --skip-capture was given (mode 2 not
\* ending the process before the full workflow).
LaunchCaptureIgnoresSkip ==
    /\ pc = "main"
    /\ ~analyze_only
    /\ server_process' = "running"
    /\ stages' = Append(stages, "capture")
    /\ pc' = "poll"
    /\ UNCHANGED << argVars, fsVars, extractVars, term_requests, i,
                    server_ready, health_requests, map_requests, map_outcome,
                    capture_result, analysisVars, mergeVars, exit_status, log >>

\* main(), mode 3, and the start of run_noizz2025: subprocess.Popen.
LaunchCapture ==
    /\ pc = "main"
    /\ ~analyze_only
    /\ ~skip_capture
    /\ server_process' = "running"
    /\ stages' = Append(stages, "capture")
    /\ pc' = "poll"
    /\ UNCHANGED << argVars, fsVars, extractVars, term_requests, i,
                    server_ready, health_requests, map_requests, map_outcome,
                    capture_result, analysisVars, mergeVars, exit_status, log >>

\* HealthPoll without the break of line 110: polling goes on after a 200.
HealthPollNoBreak ==
    /\ pc = "poll"
    /\ i < max_wait
    /\ health_requests' = health_requests + 1
    /\ \E answer \in HealthAnswers :
         /\ server_ready' = (server_ready \/ answer = "200")
         /\ i' = i + 1
         /\ pc' = IF i + 1 = max_wait /\ server_ready' THEN "try" ELSE pc
    /\ UNCHANGED << argVars, fsVars, extractVars, server_process,
                    term_requests, map_requests, map_outcome, capture_result,
                    analysisVars, mergeVars, exit_status, stages, log >>

\* One iteration of the for loop over range(max_wait).
HealthPoll ==
    /\ pc = "poll"
    /\ i < max_wait
    /\ health_requests' = health_requests + 1
    /\ \E answer \in HealthAnswers :
         IF answer = "200"
         THEN /\ server_ready' = TRUE
              /\ pc' = "try"
              /\ i' = i
         ELSE /\ i' = i + 1
              /\ UNCHANGED << server_ready, pc >>
    /\ UNCHANGED << argVars, fsVars, extractVars, server_process,
                    term_requests, map_requests, map_outcome, capture_result,
                    analysisVars, mergeVars, exit_status, stages, log >>

\* ServerFailedToStart without its return: the call goes on to the mapping.
ServerFailedToStartFallsThrough ==
    /\ pc = "poll"
    /\ i = max_wait
    /\ ~server_ready
    /\ term_requests' = term_requests + 1
    /\ log' = log \cup {"ERROR: Server failed to start"}
    /\ pc' = "try"
    /\ UNCHANGED << argVars, fsVars, extractVars, server_process, i,
                    server_ready, health_requests, map_requests, map_outcome,
                    capture_result, analysisVars, mergeVars, exit_status,
                    stages >>

\* The loop ran out: if not server_ready: terminate the child, return False.
ServerFailedToStart ==
    /\ pc = "poll"
    /\ i = max_wait
    /\ ~server_ready
    /\ term_requests' = term_requests + 1
    /\ capture_result' = "false"
    /\ log' = log \cup {"ERROR: Server failed to start"}
    /\ pc' = "capture_returned"
    /\ UNCHANGED << argVars, fsVars, extractVars, server_process, i,
                    server_ready, health_requests, map_requests, map_outcome,
                    analysisVars, mergeVars, exit_status, stages >>

\* The try block with its except clause: load the config, POST /map, read
\* the answer.
TriggerMapping ==
    /\ pc = "try"
    /\ \E outcome \in MapOutcomes :
         /\ map_outcome' = outcome
         /\ map_requests' = IF outcome = "config_error" THEN map_requests
                            ELSE map_requests + 1
         /\ log' = IF outcome = "200" THEN log
                   ELSE log \cup {"ERROR: mapping"}
    /\ pc' = "finally"
    /\ UNCHANGED << argVars, fsVars, extractVars, server_process,
                    term_requests, i, server_ready, health_requests,
                    capture_result, analysisVars, mergeVars, exit_status,
                    stages >>

\* StopServer with the cleanup in the success path only instead of a finally
\* clause: after an error the child is left running.
StopServerOnSuccessOnly ==
    /\ pc = "finally"
    /\ term_requests' = IF map_outcome = "200" THEN term_requests + 1
                        ELSE term_requests
    /\ \E exited \in BOOLEAN :
         capture_result' = IF exited THEN TryResult(map_outcome) ELSE "raised"
    /\ pc' = "capture_returned"
    /\ UNCHANGED << argVars, fsVars, extractVars, server_process, i,
                    server_ready, health_requests, map_requests, map_outcome,
                    analysisVars, mergeVars, exit_status, stages, log >>

\* The finally clause: a termination request (taskkill on win32, terminate()
\* elsewhere), then server_process.wait(timeout=5).  If the child has not
\* exited when the timeout expires, wait raises TimeoutExpired, which
\* replaces the pending return.
StopServer ==
    /\ pc = "finally"
    /\ term_requests' = term_requests + 1
    /\ \E exited \in BOOLEAN :
         capture_result' = IF exited THEN TryResult(map_outcome) ELSE "raised"
    /\ pc' = "capture_returned"
    /\ UNCHANGED << argVars, fsVars, extractVars, server_process, i,
                    server_ready, health_requests, map_requests, map_outcome,
                    analysisVars, mergeVars, exit_status, stages, log >>

\* CaptureReturned with the result of run_noizz2025 dropped: a value
\* returned, True or False, lets the pipeline go on.
CaptureReturnedIgnoresResult ==
    /\ pc = "capture_returned"
    /\ IF capture_result # "raised"
       THEN /\ pc' = "extract"
            /\ UNCHANGED << exit_status, log >>
       ELSE /\ Exit(1)
            /\ log' = log \cup {"Traceback"}
    /\ UNCHANGED << argVars, fsVars, extractVars, captureVars, analysisVars,
                    mergeVars, stages >>

\* main(), lines 317-319: if not run_noizz2025(...): sys.exit(1); an
\* exception out of run_noizz2025 is caught nowhere and ends the process.
CaptureReturned ==
    /\ pc = "capture_returned"
    /\ IF capture_result = "true"
       THEN /\ pc' = "extract"
            /\ UNCHANGED << exit_status, log >>
       ELSE /\ Exit(1)
            /\ log' = log \cup {IF capture_result = "raised" THEN "Traceback"
                                ELSE "ERROR: Noizz2025 capture failed"}
    /\ UNCHANGED << argVars, fsVars, extractVars, captureVars, analysisVars,
                    mergeVars, stages >>

----------------------------------------------------------------------------

Next ==
    \/ AnalyzeOnly
    \/ SkipCaptureCheck
    \/ LaunchCapture
    \/ HealthPoll
    \/ ServerFailedToStart
    \/ TriggerMapping
    \/ StopServer
    \/ CaptureReturned
    \/ ExtractBegin
    \/ \E f \in Stems : ExtractOne(f)
    \/ ExtractEnd
    \/ Analysis
    \/ Merge

Spec == Init /\ [][Next]_vars

----------------------------------------------------------------------------
(* The analyzer invokers called on their own, on any target directory *)

InitInvoker ==
    /\ Start
    /\ pc = "invoke"

\* A call of run_static_analysis(output_file).
InvokeRunStaticAnalysis ==
    /\ pc = "invoke"
    /\ \E rc \in ExitCodes : run_static_analysis(rc)
    /\ pc' = "invoked"
    /\ UNCHANGED << argVars, fsVars, extractVars, captureVars, mergeVars,
                    exit_status, stages, log >>

\* A call of run_static_analysis_only(js_directory, output_file).
InvokeRunStaticAnalysisOnly ==
    /\ pc = "invoke"
    /\ \E st \in DirStates, rc \in ExitCodes :
         /\ (~js_dir => st = ExtractedDirState)
         /\ run_static_analysis_only(st, rc)
    /\ pc' = "invoked"
    /\ UNCHANGED << argVars, fsVars, extractVars, captureVars, mergeVars,
                    exit_status, stages, log >>

NextInvoker ==
    \/ InvokeRunStaticAnalysis
    \/ InvokeRunStaticAnalysisOnly

SpecInvoker == InitInvoker /\ [][NextInvoker]_vars

----------------------------------------------------------------------------
(* The extractor run again and again, each run in a process of its own;   *)
(* between two runs the capture tool may rewrite the source directory.    *)

\* Extraction runs in modes 2 and 3 only.
InitExtract ==
    /\ Start
    /\ ~analyze_only
    /\ ~js_dir
    /\ pc = "extract"

\* A call of extract_js_from_json_files().  previous_run remembers whether
\* the source directory was left alone since the previous run.
ExtractBeginAgain ==
    /\ pc = "extract"
    /\ \E recs \in Dir(CaptureRecords) :
         /\ \A p \in previous_run : p.same_source => recs = records
         /\ ExtractBeginOn(recs)

\* The run is over (the loop has visited every file) and the script is
\* started again later; the history notes the destination directory as the
\* run left it and whether the source directory stays as it is until then.
NextRun ==
    /\ pc = "extract_loop"
    /\ json_files = {}
    /\ \E same \in BOOLEAN :
         previous_run' = { [js |-> extracted_js, same_source |-> same] }
    /\ pc' = "extract"
    /\ stages' = << >>
    /\ UNCHANGED << argVars, fsVars, json_files, extracted_count,
                    failed_count, captureVars, analysisVars, mergeVars,
                    exit_status, log >>

NextExtract ==
    \/ ExtractBeginAgain
    \/ \E f \in Stems : ExtractOne(f)
    \/ NextRun

SpecExtract == InitExtract /\ [][NextExtract]_vars

----------------------------------------------------------------------------
(* Properties *)

Range(seq) == { seq[k] : k \in DOMAIN seq }

\* run_noizz2025 has ended: it returned a value or raised.
CaptureCallEnded == capture_result # "none"

\* Neither the analyzer invoker nor the merge invoker has been entered.
NoAnalysisNoMerge ==
    /\ analyzer_spawns = 0
    /\ analysis_result = "none"
    /\ merge_calls = 0
    /\ "analysis" \notin Range(stages)
    /\ "merge" \notin Range(stages)

\* C1: whenever run_noizz2025 has launched the capture child and the call
\* has ended - the health check never got ready, the mapping answered 200
\* or something else, or loading the config or the request raised - a
\* termination request has been sent to the child.
C1_ChildTerminatedOnEveryExitPath ==
    (server_process = "running" /\ CaptureCallEnded) =>
        /\ term_requests >= 1
        /\ \/ ~server_ready /\ map_outcome = "none"
           \/ server_ready /\ map_outcome \in MapOutcomes

\* C1 witness: the mapping request raised, the call returned False and the
\* child was sent its termination request.
C1_Witness ==
    /\ server_process = "running"
    /\ map_outcome = "request_error"
    /\ capture_result = "false"
    /\ term_requests = 1

\* C2: in full-pipeline mode, as long as no health poll has answered 200 no
\* mapping request is issued, and when the 30 polls are used up the child
\* is sent a termination request, the call returns failure and the process
\* exits with status 1 without any mapping request.
C2_HealthNeverReadyAborts ==
    /\ (~server_ready => map_requests = 0)
    /\ (CaptureCallEnded /\ ~server_ready) =>
           /\ health_requests = max_wait
           /\ term_requests = 1
           /\ capture_result = "false"
           /\ pc \in {"capture_returned", "exited"}
    /\ (pc = "exited" /\ Mode = "full" /\ ~server_ready) =>
           /\ exit_status = 1
           /\ map_requests = 0
           /\ term_requests = 1

\* C2 witness: a full-pipeline run that used up its 30 health polls and has
\* exited.
C2_Witness ==
    /\ Mode = "full"
    /\ pc = "exited"
    /\ ~server_ready
    /\ health_requests = max_wait
    /\ exit_status = 1

\* C3: in full-pipeline mode, once run_noizz2025 has returned failure the
\* only step left is the exit with status 1: the extraction stage is never
\* entered, the extracted-script directory stays as it was, and neither the
\* analyzer nor the merge tool is invoked.
C3_CaptureFailureAbortsBeforeExtraction ==
    /\ [](capture_result = "false" =>
            /\ Mode = "full"
            /\ "extraction" \notin Range(stages)
            /\ NoAnalysisNoMerge
            /\ (pc = "exited" => exit_status = 1))
    /\ [][capture_result = "false" =>
            /\ pc' = "exited"
            /\ exit_status' = 1
            /\ UNCHANGED << extracted_exists, extracted_js, records >>]_vars

\* C3 witness: the mapping answered with a status other than 200 and the
\* run has exited with the stale .js files still in place.
C3_Witness ==
    /\ pc = "exited"
    /\ capture_result = "false"
    /\ map_outcome = "non200"
    /\ exit_status = 1
    /\ extracted_js # NoFiles

\* extract_js_from_json_files() has returned to main().
ExtractionReturned ==
    /\ "extraction" \in Range(stages)
    /\ pc \in {"analysis", "merge", "exited"}

\* A stage the run uses as a correctness gate reported failure: the capture
\* trigger, the extractor (a zero count) or the analyzer invoker.
GateFailed ==
    \/ capture_result \in {"false", "raised"}
    \/ ExtractionReturned /\ extracted_count = 0
    \/ analysis_result = "false"

\* C4: in every run mode the process ends with status 0 or 1; status 1 is
\* reported whenever capture, extraction or analysis reported failure (so
\* status 0 only when none did), and the merge step does not change the
\* status: a run that reached it with no failure ends with status 0.
C4_ExitStatusReflectsGates ==
    pc = "exited" =>
        /\ exit_status \in {0, 1}
        /\ (GateFailed => exit_status = 1)
        /\ (merge_calls > 0 /\ ~GateFailed => exit_status = 0)

\* C5: whatever the merge tool's exit code and whatever the state of the
\* merged-output file, convert_and_merge_outputs returns normally and the
\* run ends with the status it would have had without the merge step (0,
\* since main() reaches the merge step only on its way to a normal end).
C5_MergeNeverAborts ==
    merge_calls > 0 =>
        /\ merge_result = "returned"
        /\ (pc = "exited" => exit_status = 0)

\* Capture (where run), extraction and analysis all succeeded.
PriorStagesSucceeded ==
    /\ capture_result \in {"none", "true"}
    /\ ExtractionReturned
    /\ extracted_count > 0
    /\ analysis_result = "true"

\* C6: when the merge tool exits with a nonzero status a warning is
\* printed, and the run still exits with status 0 if all prior stages
\* succeeded.
C6_MergeNonzeroOnlyWarns ==
    (merge_calls > 0 /\ merge_rc # 0) =>
        /\ "Warning: Merge step had issues" \in log
        /\ (pc = "exited" /\ PriorStagesSucceeded) => exit_status = 0

\* The last n stages entered.
LastStages(n) ==
    IF Len(stages) < n THEN << >>
    ELSE SubSeq(stages, Len(stages) - n + 1, Len(stages))

\* C7: in skip-capture and in full-pipeline mode, when extraction has
\* returned 0 the run has exited with status 1 and neither the analyzer nor
\* the merge tool was invoked; when it has returned a count of at least 1
\* the run goes on to the analyzer step and then the merge step, and does
\* not end before both have run.
C7_ZeroYieldIsFatal ==
    /\ (ExtractionReturned /\ extracted_count = 0) =>
           /\ pc = "exited"
           /\ exit_status = 1
           /\ NoAnalysisNoMerge
    /\ (ExtractionReturned /\ extracted_count >= 1) =>
           /\ Mode \in {"skip_capture", "full"}
           /\ pc = "analysis" => NoAnalysisNoMerge
           /\ pc = "merge" =>
                  LastStages(2) = << "extraction", "analysis" >>
                  /\ analysis_result # "none" /\ merge_calls = 0
           /\ pc = "exited" =>
                  LastStages(3) = << "extraction", "analysis", "merge" >>
                  /\ analysis_result # "none" /\ merge_calls = 1

\* C7 witness: a skip-capture run whose source directory held records, none
\* of them with usable content, has exited.
C7_Witness ==
    /\ Mode = "skip_capture"
    /\ pc = "exited"
    /\ ExtractionReturned
    /\ extracted_count = 0
    /\ failed_count = MaxStems
    /\ exit_status = 1

\* C8: in full-pipeline mode, after a successful capture and an extraction
\* of at least one file, the analyzer is spawned exactly once and the merge
\* step is called exactly once after it, whether the analyzer succeeded or
\* failed; the stages entered are capture, extraction, analysis, merge, in
\* that order.
C8_FullPipelineStageOrder ==
    Mode = "full" =>
        /\ analyzer_spawns <= 1
        /\ merge_calls <= 1
        /\ \E n \in 0..4 :
             stages = SubSeq(<< "capture", "extraction", "analysis", "merge" >>,
                             1, n)
        /\ (capture_result = "true" /\ ExtractionReturned
              /\ extracted_count >= 1) =>
               /\ pc = "merge" => analyzer_spawns = 1 /\ merge_calls = 0
               /\ pc = "exited" =>
                      /\ analyzer_spawns = 1
                      /\ analysis_result \in {"true", "false"}
                      /\ merge_calls = 1
                      /\ stages = << "capture", "extraction", "analysis",
                                     "merge" >>

\* C8 witness: a full-pipeline run whose analyzer failed has run the merge
\* step and ended.
C8_Witness ==
    /\ Mode = "full"
    /\ pc = "exited"
    /\ capture_result = "true"
    /\ extracted_count >= 1
    /\ analysis_result = "false"
    /\ merge_calls = 1

\* C9: in skip-capture mode the capture service is never launched and no
\* health or mapping request is made; if the source directory does not
\* exist the run exits with status 1 with the extraction stage not entered,
\* the extracted-script directory unchanged and neither the analyzer nor
\* the merge tool invoked.
C9_SkipCaptureFrame ==
    /\ [](Mode = "skip_capture" =>
            /\ server_process = "none"
            /\ health_requests = 0
            /\ map_requests = 0
            /\ term_requests = 0
            /\ "capture" \notin Range(stages)
            /\ json_dir_exists = "missing" =>
                   /\ pc = "exited"
                   /\ exit_status = 1
                   /\ "extraction" \notin Range(stages)
                   /\ NoAnalysisNoMerge)
    /\ [][(Mode = "skip_capture" /\ json_dir_exists' = "missing") =>
            UNCHANGED << extracted_exists, extracted_js, records >>]_vars

\* C9 witness: a skip-capture run found no source directory and has exited,
\* the stale .js files still in place.
C9_Witness ==
    /\ Mode = "skip_capture"
    /\ json_dir_exists = "missing"
    /\ pc = "exited"
    /\ exit_status = 1
    /\ extracted_js # NoFiles

\* C10: in analyze-only mode the run exits with status 0 if and only if
\* the analyzer was spawned on the directory given with --js-dir (the
\* extracted-script directory if none was given) and exited with status 0,
\* and with status 1 otherwise; capture, extraction and merge never run.
C10_AnalyzeOnlyMirrorsAnalyzer ==
    Mode = "analyze_only" =>
        /\ server_process = "none"
        /\ health_requests = 0
        /\ map_requests = 0
        /\ merge_calls = 0
        /\ Range(stages) \subseteq {"analysis"}
        /\ pc = "exited" =>
               /\ exit_status \in {0, 1}
               /\ exit_status = 0 <=>
                      /\ analyzer_spawns = 1
                      /\ analyzer_rc = 0
                      /\ analyzer_target =
                             IF js_dir THEN "js_dir" ELSE "extracted_js"
                      /\ target_state = "hasjs"

\* C10 witness: an analyze-only run on a directory given with --js-dir
\* whose analyzer exited with a nonzero status has exited with status 1.
C10_Witness ==
    /\ Mode = "analyze_only"
    /\ js_dir
    /\ pc = "exited"
    /\ analyzer_spawns = 1
    /\ analyzer_rc = 1
    /\ exit_status = 1

\* The target directory of the analyzer invoker that ran, as the claim
\* describes it: missing, without .js files, or holding at least one.
TargetDirectory ==
    IF analyzer_target = "extracted_js"
    THEN IF ~extracted_exists THEN "missing"
         ELSE IF DOMAIN extracted_js = {} THEN "empty"
         ELSE "hasjs"
    ELSE target_state

\* C11: run_static_analysis and run_static_analysis_only return failure
\* without spawning the analyzer when the target directory is missing or
\* holds no .js file; the analyzer is spawned (once) exactly when the
\* directory exists and holds at least one .js file.
C11_AnalyzerFailsFastWithoutSpawn ==
    analysis_result # "none" =>
        /\ TargetDirectory \in {"missing", "empty"} =>
               /\ analyzer_spawns = 0
               /\ analyzer_rc = -1
               /\ analysis_result = "false"
        /\ TargetDirectory = "hasjs" => analyzer_spawns = 1
        /\ analyzer_spawns \in {0, 1}

\* C11 witness: run_static_analysis found its directory without .js files
\* and returned failure with no analyzer spawned.
C11_Witness ==
    /\ pc = "invoked"
    /\ analyzer_target = "extracted_js"
    /\ extracted_exists
    /\ extracted_js = NoFiles
    /\ analysis_result = "false"
    /\ analyzer_spawns = 0

\* A capture record with usable content: `content` is a non-empty string.
UsableContent(rec) ==
    /\ rec.kind = "string"
    /\ rec.content # << >>

\* The records of the source directory with usable content.
UsableRecords == { s \in DOMAIN records : UsableContent(records[s]) }

\* The records of the source directory lacking usable content: unparsable,
\* not an object, content absent, not a string, or empty.
LackingRecords == DOMAIN records \ UsableRecords

\* The extraction stage has been entered (destination cleared, source
\* listed).
ExtractionStarted == "extraction" \in Range(stages)

\* The for loop of extract_js_from_json_files has visited every file.
ExtractionFinished ==
    /\ ExtractionStarted
    /\ pc \in {"extract_loop", "analysis", "merge", "exited"}
    /\ json_files = {}

\* C12: when extraction has finished, every record whose content is a
\* non-empty string has a file <stem>.js in the destination directory, and
\* the file holds exactly that string.
C12_UsableRecordsExtractedVerbatim ==
    ExtractionFinished =>
        \A s \in UsableRecords :
            /\ s \in DOMAIN extracted_js
            /\ extracted_js[s] = records[s].content

\* C13: once extraction has started no <stem>.js exists for a record
\* lacking usable content, the iteration that visits such a record adds
\* exactly one to the failure counter and writes nothing, and at the end
\* the counter has counted every such record.
C13_UnusableRecordsCountedNotWritten ==
    /\ [](ExtractionStarted =>
            \A s \in LackingRecords : s \notin DOMAIN extracted_js)
    /\ [](ExtractionFinished => failed_count >= Cardinality(LackingRecords))
    /\ [][\A f \in LackingRecords :
            (pc = "extract_loop" /\ f \in json_files /\ f \notin json_files')
            => /\ failed_count' = failed_count + 1
               /\ extracted_count' = extracted_count
               /\ extracted_js' = extracted_js]_vars

\* C13 witness: extraction has finished over a record that is not a JSON
\* object and a record with usable content; one was counted as failed and
\* has no file, the other was extracted.
C13_Witness ==
    /\ ExtractionFinished
    /\ \E s \in DOMAIN records :
         records[s].kind = "nonobject" /\ s \notin DOMAIN extracted_js
    /\ failed_count = 1
    /\ extracted_count = 1

\* C15: the value extract_js_from_json_files returns is the number of
\* records with usable content, so it is 0 if and only if no record of the
\* source directory had usable content.
C15_ReturnsUsableRecordCount ==
    ExtractionReturned =>
        /\ extracted_count = Cardinality(UsableRecords)
        /\ extracted_count = 0 <=> UsableRecords = {}

\* C19: every JSON file found is visited exactly once, whatever it holds:
\* an iteration takes one file off the list, adds one to exactly one of
\* the two counters and leaves the loop running; at the end
\* extracted_count + failed_count is the number of JSON files found.
C19_EveryRecordAccountedFor ==
    /\ [](ExtractionStarted /\ pc = "extract_loop" =>
            /\ json_files \subseteq DOMAIN records
            /\ extracted_count + failed_count
                   = Cardinality(DOMAIN records \ json_files))
    /\ [](ExtractionFinished =>
            extracted_count + failed_count = Cardinality(DOMAIN records))
    /\ [][(pc = "extract_loop" /\ json_files # {}) =>
            /\ pc' = "extract_loop"
            /\ \E f \in json_files : json_files' = json_files \ {f}
            /\ extracted_count' + failed_count'
                   = extracted_count + failed_count + 1
            /\ extracted_count' >= extracted_count
            /\ failed_count' >= failed_count]_vars

\* C19 witness: extraction has finished over an unparsable record and a
\* record with usable content, one counted in each counter.
C19_Witness ==
    /\ ExtractionFinished
    /\ \E s \in DOMAIN records : records[s].kind = "unparsable"
    /\ extracted_count = 1
    /\ failed_count = 1
    /\ Cardinality(DOMAIN records) = 2

\* C14: at the end of every extraction run, whatever runs came before and
\* however the source directory changed, the .js files of the destination
\* directory are exactly the <stem>.js of the records of the current source
\* with usable content (no file of an earlier run survives for a record
\* removed or no longer usable), and a run on a source left unchanged
\* leaves the destination as the previous run left it.
C14_ExtractionIdempotent ==
    ExtractionFinished =>
        /\ DOMAIN extracted_js = UsableRecords
        /\ \A p \in previous_run : p.same_source => extracted_js = p.js

\* C14 witness: a run has finished after an earlier one; a record whose
\* file the earlier run wrote is still in the source, no longer usable, and
\* its file is gone.
C14_Witness ==
    /\ ExtractionFinished
    /\ \E p \in previous_run :
         /\ ~p.same_source
         /\ \E s \in DOMAIN p.js :
              /\ s \in LackingRecords
              /\ s \notin DOMAIN extracted_js

\* C16: run_noizz2025 ends by returning a value, never by an exception
\* reaching main(): a mapping answer other than 200, or an exception while
\* loading the config or posting the request, makes it return False, and
\* it returns True only after a health poll answered 200 and the mapping
\* request was answered successfully.
C16_CaptureFailureIsReturned ==
    (server_process = "running" /\ CaptureCallEnded) =>
        /\ capture_result \in {"true", "false"}
        /\ map_outcome \in {"non200", "config_error", "request_error"}
               => capture_result = "false"
        /\ capture_result = "true" => server_ready /\ map_outcome = "200"

\* C17: one call of run_noizz2025 makes at most 30 health requests and none
\* after the first 200; it issues at most one mapping request, and only
\* after a health request answered 200; every poll either ends the polling
\* or uses up one of the 30 attempts, so the polling phase is left after at
\* most 30 attempts.
C17_PollingBoundedAndGating ==
    /\ [](/\ health_requests <= max_wait
          /\ map_requests <= 1
          /\ map_requests > 0 => server_ready
          /\ server_ready => pc # "poll"
          /\ pc = "poll" => health_requests = i /\ i <= max_wait)
    /\ [][/\ server_ready => health_requests' = health_requests
          /\ pc = "poll" => (pc' # "poll" \/ i' = i + 1)
          /\ (pc = "poll" /\ i = max_wait) => pc' # "poll"]_vars

\* C17 witness: the 30th health request answered 200 and the mapping
\* request was issued.
C17_Witness ==
    /\ server_ready
    /\ health_requests = max_wait
    /\ map_requests = 1

\* C18: the cleanup waits a bounded time for the child and the call then
\* ends with its own result: when the mapping request succeeded
\* run_noizz2025 returns True, whether or not the child exited within the
\* wait, and the full pipeline goes on to extraction.
C18_BoundedWaitThenProceed ==
    /\ (CaptureCallEnded /\ map_outcome = "200") => capture_result = "true"
    /\ (pc = "exited" /\ map_outcome = "200") => ExtractionStarted

\* The stage sequence of the mode the two flags select; --analyze-only
\* wins over --skip-capture.
ModeStages ==
    IF analyze_only THEN << "analysis" >>
    ELSE IF skip_capture THEN << "extraction", "analysis", "merge" >>
    ELSE << "capture", "extraction", "analysis", "merge" >>

\* C20: for every combination of the two flags the stages a run enters are
\* an initial part of the stage sequence of exactly one mode - analysis
\* only; extraction, analysis, merge; capture, extraction, analysis, merge -
\* and no stage of another mode is entered; with both flags given only the
\* analyze-only sequence runs.
C20_ModesMutuallyExclusive ==
    /\ \E n \in 0..Len(ModeStages) : stages = SubSeq(ModeStages, 1, n)
    /\ (server_process # "none" \/ health_requests > 0 \/ map_requests > 0)
           => (~analyze_only /\ ~skip_capture)
    /\ (ExtractionStarted \/ merge_calls > 0) => ~analyze_only
    /\ (pc = "exited" /\ exit_status = 0) => stages = ModeStages

\* C20 witness: a run given both flags has ended after the analysis stage
\* alone.
C20_Witness ==
    /\ analyze_only
    /\ skip_capture
    /\ pc = "exited"
    /\ stages = << "analysis" >>

====
